---- MODULE Spec2Model ----
\* Play queue engine of SimpleTunes: QueueService (services/queue_manager.py) and
\* QueueShuffleMixin (services/queue_shuffle.py) over the queue_items table and the
\* single queue_state row, as served by routes/queue.py with one SQLAlchemy session
\* per request (database.py: autocommit=False, autoflush=False).
EXTENDS Integers, Sequences, FiniteSets

\* ---------------------------------------------------------------- bounds
\* Longest queue: a request that would leave more rows is not issued.
MaxLen == 2
\* Largest position and current_index: a request that would leave a larger one
\* is not issued.
MaxPos == 2
\* Longest track_ids list handed to add_tracks.
MaxAdd == 2
\* Number of queue entries the concurrent specification starts from, at most.
MaxConcLen == 3
\* Largest position and current_index in the specification of the editing
\* requests alone (SpecEdit).
MaxGap == 3

\* ---------------------------------------------------------------- catalog
\* Track ids that resolve in the tracks table, and one id that does not. No
\* method branches on which track a row holds, only on whether an id resolves;
\* the rows themselves are told apart by their place in items.
Tracks == {"t1"}
UnknownTrack == "tx"
TrackIds == Tracks \cup {UnknownTrack}
\* Albums, playlists and artists that resolve, and for each kind one id that
\* does not.
Albums == {"al1"}
UnknownAlbum == "alx"
Playlists == {"pl1"}
UnknownPlaylist == "plx"
Artists == {"ar1"}
UnknownArtist == "arx"
\* Python's None as a return value, and a raised ValueError.
None == "none"
ValueError == "ValueError"
RepeatModes == {"off", "one", "all"}

VARIABLES
  items,            \* queue_items rows [track_id, position], oldest first: the k-th
                    \* row is the one with the k-th smallest rowid
  state_exists,     \* whether the queue_state row (id = 1) exists
  current_index,    \* queue_state.current_index
  shuffle_enabled,  \* queue_state.shuffle_enabled
  repeat_mode,      \* queue_state.repeat_mode
  shuffle_order,    \* queue_state.shuffle_order (<< >> stands for NULL)
  last_op,          \* the request served last, once a behaviour has recorded one
  ret,              \* what the service method of that request returned
  sessions,         \* concurrent requests: what each session read, and its stage
  conc_init         \* the committed rows the concurrent requests started from

vars == <<items, state_exists, current_index, shuffle_enabled, repeat_mode,
          shuffle_order, last_op, ret, sessions, conc_init>>

\* ---------------------------------------------------------------- rows
NoItems == << >>

\* The committed rows as one record.
DB == [items |-> items, current_index |-> current_index,
       shuffle_enabled |-> shuffle_enabled, repeat_mode |-> repeat_mode,
       shuffle_order |-> shuffle_order]

\* query(QueueItem).count()
Count(its) == Cardinality(DOMAIN its)

\* ORDER BY position: rows of equal position come in rowid order, the order of
\* SQLite's index on position.
Before(its, a, b) ==
  \/ its[a].position < its[b].position
  \/ its[a].position = its[b].position /\ a < b

\* items[k] of query(QueueItem).order_by(QueueItem.position).all(), k from 0.
ItemAt(its, k) ==
  CHOOSE a \in DOMAIN its : Cardinality({b \in DOMAIN its : Before(its, b, a)}) = k

PositionSet(its) == {its[e].position : e \in DOMAIN its}

\* (max_pos or -1) + 1 with max_pos = query(func.max(QueueItem.position)).scalar():
\* NULL on an empty table, and Python's `or` takes 0 for false as well.
StartPos(its) ==
  IF DOMAIN its = {} THEN 0
  ELSE LET max_pos == CHOOSE p \in PositionSet(its) : \A r \in PositionSet(its) : r <= p
       IN  (IF max_pos = 0 THEN -1 ELSE max_pos) + 1

\* All orders random.shuffle can leave a list of the members of S in.
Shuffles(S) ==
  {p \in [1..Cardinality(S) -> S] : \A i, j \in 1..Cardinality(S) : p[i] = p[j] => i = j}

\* _regenerate_shuffle: every row it may leave, one per outcome of random.shuffle.
\* `visible` are the rows query(QueueItem).count() counts: objects added to or
\* deleted from the session are not flushed before a query (autoflush=False).
regenerate_shuffle(q, visible) ==
  LET total == Count(visible)
      current == q.current_index
  IN  IF total = 0 THEN {q}
      ELSE IF 0 <= current /\ current < total
           THEN {[q EXCEPT !.shuffle_order = <<current>> \o shuffled,
                           !.current_index = 0] :
                   shuffled \in Shuffles((0..(total - 1)) \ {current})}
           ELSE {[q EXCEPT !.shuffle_order = shuffled] :
                   shuffled \in Shuffles(0..(total - 1))}

\* ---------------------------------------------------------------- service
\* _ensure_state_exists that only looks for the queue_state row.
ensure_state_skips(exists) == exists

\* _ensure_state_exists, as whether the queue_state row (id = 1) exists when it
\* is done: found, or added and committed.
ensure_state_exists(exists) == TRUE

\* Every service method is the set of its outcomes [q, ret, made, raised]: the
\* rows it leaves committed, its return value, the number of rows it inserted,
\* and whether it left by raising instead of returning.
Result(q, r, n) == [q |-> q, ret |-> r, made |-> n, raised |-> FALSE]

\* raise ValueError(...): the method does not reach its db.commit(), and the
\* rows are the committed ones, base.
Raised(base) == [q |-> base, ret |-> ValueError, made |-> 0, raised |-> TRUE]

\* get_current_track, as the queue entry it picks (0 when it returns None).
current_entry(q) ==
  IF DOMAIN q.items = {} THEN 0
  ELSE LET effective_index ==
             IF q.shuffle_enabled /\ q.shuffle_order # << >>
                /\ 0 <= q.current_index /\ q.current_index < Len(q.shuffle_order)
             THEN q.shuffle_order[q.current_index + 1]
             ELSE q.current_index
       IN  IF 0 <= effective_index /\ effective_index < Count(q.items)
           THEN ItemAt(q.items, effective_index)
           ELSE 0

\* get_current_track: the track of that entry, or None.
get_current_track(q) ==
  IF current_entry(q) = 0 THEN None ELSE q.items[current_entry(q)].track_id

\* clear_queue that deletes the rows and leaves queue_state as it is.
clear_queue_keeps_state(q) ==
  {Result([q EXCEPT !.items = NoItems], TRUE, 0)}

\* clear_queue: the bulk DELETE, the two assignments and the commit.
clear_queue(q) ==
  {Result([q EXCEPT !.items = NoItems, !.current_index = 0, !.shuffle_order = << >>],
          TRUE, 0)}

\* add_track(track_id, position, ...); position = None is passed as use_max.
\* `base` are the rows as committed before the request: a ValueError leaves the
\* route without a commit and get_db closes the session, which rolls back.
add_track(q, base, track_id, use_max, position) ==
  IF track_id \notin Tracks THEN {Raised(base)}
  ELSE LET pos == IF use_max THEN StartPos(q.items) ELSE position
           item == [track_id |-> track_id, position |-> pos]
           rows == Append(q.items, item)
       IN  {Result([q1 EXCEPT !.items = rows], pos, 1) :
              q1 \in IF q.shuffle_enabled THEN regenerate_shuffle(q, q.items) ELSE {q}}

\* add_tracks(track_ids, clear_existing=...)
add_tracks(q, track_ids, clear_existing) ==
  LET q1 == IF clear_existing
            THEN [q EXCEPT !.items = NoItems, !.current_index = 0,
                           !.shuffle_order = << >>]
            ELSE q
      start_pos == StartPos(q1.items)
      known == {i \in 1..Len(track_ids) : track_ids[i] \in Tracks}
      added == Cardinality(known)
      idOf(i) == Len(q1.items) + 1 + Cardinality({j \in known : j < i})
      made == {idOf(i) : i \in known}
      rows == [e \in DOMAIN q1.items \cup made |->
                 IF e \in DOMAIN q1.items THEN q1.items[e]
                 ELSE LET i == CHOOSE i \in known : idOf(i) = e
                      IN  [track_id |-> track_ids[i],
                           position |-> start_pos + (i - 1)]]
  IN  {Result([q2 EXCEPT !.items = rows], added, added) :
         q2 \in IF added > 0 /\ q1.shuffle_enabled
                THEN regenerate_shuffle(q1, q1.items) ELSE {q1}}

\* query(Track).filter(Track.album_id == album_id): the ids of the tracks of an
\* album, none for an id no track refers to.
tracks_of_album(album_id) ==
  IF album_id \in Albums THEN <<"t1">> ELSE << >>

\* query(Track).filter(Track.artist_id == artist_id), likewise.
tracks_of_artist(artist_id) ==
  IF artist_id \in Artists THEN <<"t1">> ELSE << >>

\* query(playlist_tracks.c.track_id) of a playlist that exists.
tracks_of_playlist(playlist_id) == <<"t1">>

\* add_album
add_album(q, album_id, clear_existing) ==
  add_tracks(q, tracks_of_album(album_id), clear_existing)

\* add_playlist
add_playlist(q, playlist_id, clear_existing) ==
  IF playlist_id \notin Playlists THEN {Raised(q)}
  ELSE add_tracks(q, tracks_of_playlist(playlist_id), clear_existing)

\* add_artist
add_artist(q, artist_id, clear_existing) ==
  add_tracks(q, tracks_of_artist(artist_id), clear_existing)

\* add_to_queue
add_to_queue(q, track_id) ==
  add_track(q, q, track_id, TRUE, 0)

\* play_next with the bulk UPDATE committed before add_track looks the track up.
play_next_keeps_shift(q, track_id) ==
  LET next_position == q.current_index + 1
      shifted == [e \in DOMAIN q.items |->
                    IF q.items[e].position >= next_position
                    THEN [q.items[e] EXCEPT !.position = @ + 1]
                    ELSE q.items[e]]
  IN  add_track([q EXCEPT !.items = shifted], [q EXCEPT !.items = shifted],
                track_id, FALSE, next_position)

\* play_next: the bulk UPDATE shifts the rows, then add_track inserts.
play_next(q, track_id) ==
  LET next_position == q.current_index + 1
      shifted == [e \in DOMAIN q.items |->
                    IF q.items[e].position >= next_position
                    THEN [q.items[e] EXCEPT !.position = @ + 1]
                    ELSE q.items[e]]
  IN  add_track([q EXCEPT !.items = shifted], q, track_id, FALSE,
                next_position)

\* remove_track that resets current_index before it looks the row up.
remove_track_resets(q, queue_item_id) ==
  {Result([q EXCEPT !.current_index = 0], FALSE, 0)}

\* remove_track: db.delete(item) is pending until the commit, so the count() of
\* the index adjustment and of _regenerate_shuffle still counts the removed row.
\* The rows that stay keep their order of insertion (see items).
remove_track(q, queue_item_id) ==
  IF queue_item_id \notin DOMAIN q.items THEN {Result(q, FALSE, 0)}
  ELSE LET removed_position == q.items[queue_item_id].position
           Old(e) == IF e < queue_item_id THEN e ELSE e + 1
           rows == [e \in 1..(Len(q.items) - 1) |->
                      IF q.items[Old(e)].position > removed_position
                      THEN [q.items[Old(e)] EXCEPT !.position = @ - 1]
                      ELSE q.items[Old(e)]]
           total == Count(q.items)
           index == IF removed_position < q.current_index
                    THEN q.current_index - 1
                    ELSE IF removed_position = q.current_index
                            /\ q.current_index >= total
                         THEN (IF total - 1 > 0 THEN total - 1 ELSE 0)
                         ELSE q.current_index
           q1 == [q EXCEPT !.current_index = index]
       IN  {Result([q2 EXCEPT !.items = rows], TRUE, 0) :
              q2 \in IF q1.shuffle_enabled
                     THEN regenerate_shuffle(q1, q.items) ELSE {q1}}

\* move_track
move_track(q, queue_item_id, new_position) ==
  IF queue_item_id \notin DOMAIN q.items THEN {Result(q, FALSE, 0)}
  ELSE LET old_position == q.items[queue_item_id].position
           rows == [e \in DOMAIN q.items |->
                      IF e = queue_item_id
                      THEN [q.items[e] EXCEPT !.position = new_position]
                      ELSE IF new_position < old_position
                              /\ q.items[e].position >= new_position
                              /\ q.items[e].position < old_position
                      THEN [q.items[e] EXCEPT !.position = @ + 1]
                      ELSE IF new_position > old_position
                              /\ q.items[e].position > old_position
                              /\ q.items[e].position <= new_position
                      THEN [q.items[e] EXCEPT !.position = @ - 1]
                      ELSE q.items[e]]
           index == IF old_position = q.current_index THEN new_position
                    ELSE IF old_position < q.current_index
                            /\ q.current_index <= new_position
                    THEN q.current_index - 1
                    ELSE IF new_position <= q.current_index
                            /\ q.current_index < old_position
                    THEN q.current_index + 1
                    ELSE q.current_index
       IN  IF old_position = new_position THEN {Result(q, TRUE, 0)}
           ELSE {Result([q EXCEPT !.items = rows, !.current_index = index], TRUE, 0)}

\* set_shuffle
set_shuffle(q, enabled) ==
  LET q1 == [q EXCEPT !.shuffle_enabled = enabled]
  IN  IF enabled
      THEN {Result(q2, enabled, 0) : q2 \in regenerate_shuffle(q1, q1.items)}
      ELSE {Result([q1 EXCEPT !.shuffle_order = << >>], enabled, 0)}

\* set_repeat without the check of the mode.
set_repeat_unchecked(q, mode) ==
  {Result([q EXCEPT !.repeat_mode = mode], mode, 0)}

\* set_repeat
set_repeat(q, mode) ==
  IF mode \notin {"off", "one", "all"} THEN {Raised(q)}
  ELSE {Result([q EXCEPT !.repeat_mode = mode], mode, 0)}

\* play_index
play_index(q, index) ==
  IF index < 0 \/ index >= Count(q.items) THEN {Result(q, None, 0)}
  ELSE LET q1 == [q EXCEPT !.current_index = index]
       IN  {Result(q1, get_current_track(q1), 0)}

\* next_track that advances under repeat_mode = one as it does under off.
next_track_ignores_one(q) ==
  LET total == Count(q.items)
      next_index == q.current_index + 1
      q1 == [q EXCEPT !.current_index = IF next_index >= total THEN 0 ELSE next_index]
  IN  IF total = 0 THEN {Result(q, None, 0)}
      ELSE IF next_index >= total /\ q.repeat_mode # "all" THEN {Result(q, None, 0)}
      ELSE {Result(q1, get_current_track(q1), 0)}

\* next_track with the end of the queue handled as under repeat_mode = all.
next_track_wraps(q) ==
  LET total == Count(q.items)
      next_index == q.current_index + 1
      q1 == [q EXCEPT !.current_index = IF next_index >= total THEN 0 ELSE next_index]
  IN  IF total = 0 THEN {Result(q, None, 0)}
      ELSE IF q.repeat_mode = "one" THEN {Result(q, get_current_track(q), 0)}
      ELSE {Result(q1, get_current_track(q1), 0)}

\* next_track
next_track(q) ==
  LET total == Count(q.items)
      next_index == q.current_index + 1
      q1 == [q EXCEPT !.current_index = IF next_index >= total THEN 0 ELSE next_index]
  IN  IF total = 0 THEN {Result(q, None, 0)}
      ELSE IF q.repeat_mode = "one" THEN {Result(q, get_current_track(q), 0)}
      ELSE IF next_index >= total /\ q.repeat_mode # "all" THEN {Result(q, None, 0)}
      ELSE {Result(q1, get_current_track(q1), 0)}

\* previous_track
previous_track(q) ==
  LET total == Count(q.items)
      prev_index == q.current_index - 1
      q1 == [q EXCEPT !.current_index =
               IF prev_index < 0
               THEN (IF q.repeat_mode = "all" THEN total - 1 ELSE 0)
               ELSE prev_index]
  IN  IF total = 0 THEN {Result(q, None, 0)}
      ELSE {Result(q1, get_current_track(q1), 0)}

\* A raised IndexError: Python's list index out of range.
IndexError == "IndexError"

\* raise IndexError out of a method that has written nothing: the rows are the
\* committed ones, base.
RaisedIndex(base) == [q |-> base, ret |-> IndexError, made |-> 0, raised |-> TRUE]

\* range(lo, hi) as a sequence.
Range(lo, hi) == IF hi <= lo THEN << >> ELSE [k \in 1..(hi - lo) |-> lo + k - 1]

\* The loop get_upcoming and get_history share, over range(lo, hi): the queue
\* entries whose dicts it appends, in order. state.shuffle_order[i] raises
\* IndexError for an i outside -len..len-1 and counts a negative i from the end.
project_range(q, lo, hi) ==
  LET total == Count(q.items)
      mapped == q.shuffle_enabled /\ q.shuffle_order # << >>
      len == Len(q.shuffle_order)
      effective_index(i) ==
        IF mapped THEN q.shuffle_order[(IF i < 0 THEN len + i ELSE i) + 1] ELSE i
      Kept(i) == 0 <= effective_index(i) /\ effective_index(i) < total
      walked == Range(lo, hi)
      kept == SelectSeq(walked, Kept)
  IN  IF mapped /\ \E k \in DOMAIN walked : walked[k] < -len \/ walked[k] >= len
      THEN {RaisedIndex(q)}
      ELSE {Result(q, [k \in DOMAIN kept |-> ItemAt(q.items, effective_index(kept[k]))], 0)}

\* get_queue's choice of the current track, as the queue entry it picks (0 when
\* current_track stays None): it maps current_index through shuffle_order
\* whenever current_index is below the number of rows.
queue_entry(q) ==
  LET total == Count(q.items)
      effective_index ==
        IF q.shuffle_enabled /\ q.shuffle_order # << >>
        THEN q.shuffle_order[q.current_index + 1]
        ELSE q.current_index
  IN  IF total > 0 /\ 0 <= q.current_index /\ q.current_index < total
         /\ 0 <= effective_index /\ effective_index < total
      THEN ItemAt(q.items, effective_index)
      ELSE 0

\* get_queue: no write and no commit. state.shuffle_order[state.current_index]
\* raises IndexError when shuffle_order is shorter than current_index + 1.
get_queue(q) ==
  LET total == Count(q.items)
  IN  IF /\ total > 0 /\ 0 <= q.current_index /\ q.current_index < total
         /\ q.shuffle_enabled /\ q.shuffle_order # << >>
         /\ q.current_index >= Len(q.shuffle_order)
      THEN {RaisedIndex(q)}
      ELSE {Result(q, [items |-> [k \in 1..total |-> ItemAt(q.items, k - 1)],
                       current_index |-> q.current_index,
                       current_track |-> IF queue_entry(q) = 0 THEN None
                                         ELSE q.items[queue_entry(q)].track_id,
                       shuffle_enabled |-> q.shuffle_enabled,
                       repeat_mode |-> q.repeat_mode,
                       total_tracks |-> total], 0)}

\* get_upcoming that moves current_index past the entries it has listed.
get_upcoming_advances(q, limit) ==
  LET total == Count(q.items)
      stop == IF q.current_index + 1 + limit < total
              THEN q.current_index + 1 + limit ELSE total
  IN  IF total = 0 THEN {Result(q, << >>, 0)}
      ELSE {[r EXCEPT !.q.current_index = IF stop > @ THEN stop - 1 ELSE @] :
              r \in project_range(q, q.current_index + 1, stop)}

\* get_upcoming: no write and no commit.
get_upcoming(q, limit) ==
  LET total == Count(q.items)
      stop == IF q.current_index + 1 + limit < total
              THEN q.current_index + 1 + limit ELSE total
  IN  IF total = 0 THEN {Result(q, << >>, 0)}
      ELSE project_range(q, q.current_index + 1, stop)

\* get_history: no write and no commit.
get_history(q, limit) ==
  LET start == IF q.current_index - limit > 0 THEN q.current_index - limit ELSE 0
  IN  IF Count(q.items) = 0 THEN {Result(q, << >>, 0)}
      ELSE project_range(q, start, q.current_index)

\* ---------------------------------------------------------------- requests
\* Inputs of the requests.
TrackLists == UNION {[1..n -> TrackIds] : n \in 0..MaxAdd}
ItemIds == 1..(MaxLen + 1)
Indexes == (-1)..Count(items)
NewPositions == 0..Count(items)
Modes == RepeatModes \cup {"bogus"}
\* limit of GET /queue/upcoming and /queue/history when the query has none, and
\* the limits a query may carry (any int: the routes do not validate it).
DefaultLimit == 10
Limits == ((-1)..1) \cup {DefaultLimit}

NoSessions == << >>

Init ==
  /\ items = NoItems
  /\ state_exists = FALSE
  /\ current_index = 0
  /\ shuffle_enabled = FALSE
  /\ repeat_mode = "off"
  /\ shuffle_order = << >>
  /\ last_op = "init"
  /\ ret = None
  /\ sessions = NoSessions
  /\ conc_init = DB

\* last_op and ret are history variables, and a behaviour of Spec records one
\* request at most, its last: the requests before it leave last_op and ret as
\* they were, so the rows are explored once and not once per request that can
\* leave them.
Unrecorded == last_op = "init"

\* One request served alone: QueueService(db) makes sure the queue_state row
\* exists, the method runs, and its outcome r is what the commit leaves.
Serve(op, r) ==
  /\ Count(r.q.items) <= MaxLen
  /\ \A e \in DOMAIN r.q.items : r.q.items[e].position <= MaxPos
  /\ r.q.current_index <= MaxPos
  /\ items' = r.q.items
  /\ current_index' = r.q.current_index
  /\ shuffle_enabled' = r.q.shuffle_enabled
  /\ repeat_mode' = r.q.repeat_mode
  /\ shuffle_order' = r.q.shuffle_order
  /\ state_exists' = ensure_state_exists(state_exists)
  /\ \/ last_op' = op /\ ret' = r.ret
     \/ UNCHANGED <<last_op, ret>>
  /\ UNCHANGED <<sessions, conc_init>>

ClearQueue ==
  /\ Unrecorded
  /\ \E r \in clear_queue(DB) : Serve("clear_queue", r)

AddTracks ==
  /\ Unrecorded
  /\ \E track_ids \in TrackLists, clear_existing \in BOOLEAN :
       \E r \in add_tracks(DB, track_ids, clear_existing) : Serve("add_tracks", r)

AddAlbum ==
  /\ Unrecorded
  /\ \E album_id \in Albums \cup {UnknownAlbum}, clear \in BOOLEAN :
       \E r \in add_album(DB, album_id, clear) : Serve("add_album", r)

AddPlaylist ==
  /\ Unrecorded
  /\ \E playlist_id \in Playlists \cup {UnknownPlaylist}, clear \in BOOLEAN :
       \E r \in add_playlist(DB, playlist_id, clear) : Serve("add_playlist", r)

AddArtist ==
  /\ Unrecorded
  /\ \E artist_id \in Artists \cup {UnknownArtist}, clear \in BOOLEAN :
       \E r \in add_artist(DB, artist_id, clear) : Serve("add_artist", r)

AddToQueue ==
  /\ Unrecorded
  /\ \E track_id \in TrackIds :
       \E r \in add_to_queue(DB, track_id) : Serve("add_to_queue", r)

PlayNext ==
  /\ Unrecorded
  /\ \E track_id \in TrackIds :
       \E r \in play_next(DB, track_id) : Serve("play_next", r)

RemoveTrack ==
  /\ Unrecorded
  /\ \E queue_item_id \in ItemIds :
       \E r \in remove_track(DB, queue_item_id) : Serve("remove_track", r)

MoveTrack ==
  /\ Unrecorded
  /\ \E queue_item_id \in ItemIds, new_position \in NewPositions :
       \E r \in move_track(DB, queue_item_id, new_position) : Serve("move_track", r)

SetShuffle ==
  /\ Unrecorded
  /\ \E enabled \in BOOLEAN :
       \E r \in set_shuffle(DB, enabled) : Serve("set_shuffle", r)

SetRepeat ==
  /\ Unrecorded
  /\ \E mode \in Modes :
       \E r \in set_repeat(DB, mode) : Serve("set_repeat", r)

PlayIndex ==
  /\ Unrecorded
  /\ \E index \in Indexes :
       \E r \in play_index(DB, index) : Serve("play_index", r)

NextTrack ==
  /\ Unrecorded
  /\ \E r \in next_track(DB) : Serve("next_track", r)

PreviousTrack ==
  /\ Unrecorded
  /\ \E r \in previous_track(DB) : Serve("previous_track", r)

GetCurrentTrack ==
  /\ Unrecorded
  /\ Serve("get_current_track", Result(DB, get_current_track(DB), 0))

GetQueue ==
  /\ Unrecorded
  /\ \E r \in get_queue(DB) : Serve("get_queue", r)

GetUpcoming ==
  /\ Unrecorded
  /\ \E limit \in Limits :
       \E r \in get_upcoming(DB, limit) : Serve("get_upcoming", r)

GetHistory ==
  /\ Unrecorded
  /\ \E limit \in Limits :
       \E r \in get_history(DB, limit) : Serve("get_history", r)

Next ==
  \/ ClearQueue
  \/ AddTracks
  \/ AddAlbum
  \/ AddPlaylist
  \/ AddArtist
  \/ AddToQueue
  \/ PlayNext
  \/ RemoveTrack
  \/ MoveTrack
  \/ SetShuffle
  \/ SetRepeat
  \/ PlayIndex
  \/ NextTrack
  \/ PreviousTrack
  \/ GetCurrentTrack
  \/ GetQueue
  \/ GetUpcoming
  \/ GetHistory

Spec == Init /\ [][Next]_vars

\* ---------------------------------------------------------------- editing
\* The requests that edit the rows (add, move, remove), served alone as in Spec,
\* with room for positions up to MaxGap: the behaviours in which a client never
\* touches shuffle, repeat or the navigation.
ServeEdit(op, r) ==
  /\ Count(r.q.items) <= MaxLen
  /\ \A e \in DOMAIN r.q.items : r.q.items[e].position <= MaxGap
  /\ r.q.current_index <= MaxGap
  /\ items' = r.q.items
  /\ current_index' = r.q.current_index
  /\ shuffle_enabled' = r.q.shuffle_enabled
  /\ repeat_mode' = r.q.repeat_mode
  /\ shuffle_order' = r.q.shuffle_order
  /\ state_exists' = ensure_state_exists(state_exists)
  /\ last_op' = op
  /\ ret' = r.ret
  /\ UNCHANGED <<sessions, conc_init>>

EditAddTracks ==
  \E track_ids \in TrackLists :
    \E r \in add_tracks(DB, track_ids, FALSE) : ServeEdit("add_tracks", r)

EditRemoveTrack ==
  \E queue_item_id \in ItemIds :
    \E r \in remove_track(DB, queue_item_id) : ServeEdit("remove_track", r)

EditMoveTrack ==
  \E queue_item_id \in ItemIds, new_position \in NewPositions :
    \E r \in move_track(DB, queue_item_id, new_position) : ServeEdit("move_track", r)

NextEdit ==
  \/ EditAddTracks
  \/ EditRemoveTrack
  \/ EditMoveTrack

SpecEdit == Init /\ [][NextEdit]_vars

\* ---------------------------------------------------------------- concurrency
\* Two requests served at once (routes are plain `def`s, run on the thread pool),
\* each on its own SessionLocal() session over the one SQLite file. A session
\* reads with plain SELECTs when its method runs, and writes at db.commit(): the
\* flush inserts the rows it added and updates the queue_state columns it
\* assigned a new value to. Nothing orders one session's reads after another
\* session's commit.
Sessions == 1..2
ConcTrackLists == UNION {[1..n -> Tracks] : n \in 1..MaxAdd}

\* The queue that add_tracks of n >= 2 known tracks leaves on an empty queue,
\* or enqueue on an empty queue (n = 1).
DenseQueue(n) == [e \in 1..n |-> [track_id |-> "t1", position |-> e - 1]]

\* What the method of session ses does to the rows q.
Outcomes(q, ses) ==
  IF ses.op = "add_tracks" THEN add_tracks(q, ses.track_ids, FALSE)
  ELSE IF ses.op = "clear_queue" THEN clear_queue(q)
  ELSE IF ses.op = "next_track" THEN next_track(q)
  ELSE previous_track(q)

InitConc ==
  /\ items \in {DenseQueue(n) : n \in 0..MaxConcLen}
  /\ state_exists \in IF items = NoItems THEN BOOLEAN ELSE {TRUE}
  /\ current_index \in {i \in 0..MaxConcLen : i = 0 \/ i < Len(items)}
  /\ shuffle_enabled = FALSE
  /\ repeat_mode \in IF state_exists THEN RepeatModes ELSE {"off"}
  /\ shuffle_order = << >>
  /\ last_op = "init"
  /\ ret = None
  /\ sessions = [s \in Sessions |->
                   [stage |-> "idle", op |-> "none", track_ids |-> << >>,
                    clear_existing |-> FALSE, read |-> DB]]
  /\ conc_init = DB

\* QueueService(db) of session s, first half: _ensure_state_exists has queried
\* the queue_state row, and has a QueueState(id=1) to commit if it found none.
Construct(s) ==
  /\ sessions[s].stage = "idle"
  /\ sessions' = [sessions EXCEPT ![s].stage = IF state_exists THEN "ready" ELSE "new"]
  /\ UNCHANGED <<items, state_exists, current_index, shuffle_enabled, repeat_mode,
                 shuffle_order, last_op, ret, conc_init>>

ConstructService == \E s \in Sessions : Construct(s)

\* The db.commit() of _ensure_state_exists: the INSERT of the row with id = 1. id
\* is the primary key, so the INSERT fails (IntegrityError, uncaught) when
\* another session has committed the row since the query.
EnsureCommit(s) ==
  /\ sessions[s].stage = "new"
  /\ state_exists' = ensure_state_exists(state_exists)
  /\ sessions' = [sessions EXCEPT ![s].stage = IF state_exists THEN "failed" ELSE "ready"]
  /\ UNCHANGED <<items, current_index, shuffle_enabled, repeat_mode,
                 shuffle_order, last_op, ret, conc_init>>

EnsureState == \E s \in Sessions : EnsureCommit(s)

\* The method of session s runs up to its commit: it has read the rows.
Begin(s, op, track_ids) ==
  /\ sessions[s].stage = "ready"
  /\ sessions' = [sessions EXCEPT ![s] =
                    [stage |-> "read", op |-> op, track_ids |-> track_ids,
                     clear_existing |-> FALSE, read |-> DB]]
  /\ UNCHANGED <<items, state_exists, current_index, shuffle_enabled, repeat_mode,
                 shuffle_order, last_op, ret, conc_init>>

BeginAddTracks ==
  \E s \in Sessions, track_ids \in ConcTrackLists : Begin(s, "add_tracks", track_ids)

BeginNextTrack == \E s \in Sessions : Begin(s, "next_track", << >>)

BeginPreviousTrack == \E s \in Sessions : Begin(s, "previous_track", << >>)

\* clear_queue of session s: its DELETE takes SQLite's write lock, which it keeps
\* until its commit, so no other commit falls between its statements.
ClearSession(s) ==
  /\ sessions[s].stage = "ready"
  /\ \E r \in clear_queue(DB) :
       /\ items' = r.q.items
       /\ current_index' = r.q.current_index
       /\ shuffle_order' = r.q.shuffle_order
       /\ last_op' = "clear_queue"
       /\ ret' = r.ret
  /\ sessions' = [sessions EXCEPT ![s] =
                    [stage |-> "done", op |-> "clear_queue", track_ids |-> << >>,
                     clear_existing |-> FALSE, read |-> DB]]
  /\ UNCHANGED <<state_exists, shuffle_enabled, repeat_mode, conc_init>>

ClearQueueSession == \E s \in Sessions : ClearSession(s)

\* add_tracks(track_ids, clear_existing=True) of session s, first half: it calls
\* self.clear_queue(), whose db.commit() ends the transaction with the rows
\* deleted; the tracks are added in a transaction of their own.
ClearExisting(s, track_ids) ==
  /\ sessions[s].stage = "ready"
  /\ \E r \in clear_queue(DB) :
       /\ items' = r.q.items
       /\ current_index' = r.q.current_index
       /\ shuffle_order' = r.q.shuffle_order
  /\ sessions' = [sessions EXCEPT ![s] =
                    [stage |-> "cleared", op |-> "add_tracks", track_ids |-> track_ids,
                     clear_existing |-> TRUE, read |-> DB]]
  /\ UNCHANGED <<state_exists, shuffle_enabled, repeat_mode, last_op, ret, conc_init>>

BeginAddTracksClearing ==
  \E s \in Sessions, track_ids \in ConcTrackLists : ClearExisting(s, track_ids)

\* add_tracks(track_ids, clear_existing=True) of session s, second half up to
\* its commit: the query of max(position) reads the rows as committed by then.
ReadAfterClear(s) ==
  /\ sessions[s].stage = "cleared"
  /\ sessions' = [sessions EXCEPT ![s].stage = "read", ![s].read = DB]
  /\ UNCHANGED <<items, state_exists, current_index, shuffle_enabled, repeat_mode,
                 shuffle_order, last_op, ret, conc_init>>

ResumeAddTracks == \E s \in Sessions : ReadAfterClear(s)

\* db.commit() of session s: the rows it made are inserted with the positions it
\* computed, and the queue_state columns it changed are overwritten. next_track
\* and previous_track then return get_current_track(), read after the commit.
Commit(s) ==
  /\ sessions[s].stage = "read"
  /\ \E r \in Outcomes(sessions[s].read, sessions[s]) :
       LET rd == sessions[s].read
           made == SubSeq(r.q.items, Len(rd.items) + 1, Len(r.q.items))
           after == [items |-> items \o made,
                     current_index |-> IF r.q.current_index # rd.current_index
                                       THEN r.q.current_index ELSE current_index,
                     shuffle_enabled |-> shuffle_enabled,
                     repeat_mode |-> repeat_mode,
                     shuffle_order |-> IF r.q.shuffle_order # rd.shuffle_order
                                       THEN r.q.shuffle_order ELSE shuffle_order]
       IN  /\ items' = after.items
           /\ current_index' = after.current_index
           /\ shuffle_order' = after.shuffle_order
           /\ last_op' = sessions[s].op
           /\ ret' = IF sessions[s].op # "add_tracks" /\ r.q # rd
                     THEN get_current_track(after) ELSE r.ret
  /\ sessions' = [sessions EXCEPT ![s].stage = "done"]
  /\ UNCHANGED <<state_exists, shuffle_enabled, repeat_mode, conc_init>>

CommitSession == \E s \in Sessions : Commit(s)

NextConc ==
  \/ ConstructService
  \/ EnsureState
  \/ ClearQueueSession
  \/ BeginAddTracks
  \/ BeginAddTracksClearing
  \/ ResumeAddTracks
  \/ BeginNextTrack
  \/ BeginPreviousTrack
  \/ CommitSession

SpecConc == InitConc /\ [][NextConc]_vars

\* ---------------------------------------------------------------- properties
N == Len(items)

\* The positions of the rows are exactly 0..n-1, each taken once.
Dense(its) ==
  \A k \in 0..(Len(its) - 1) : Cardinality({e \in DOMAIN its : its[e].position = k}) = 1

\* order lists each of 0..n-1 exactly once.
IsPermutation(order, n) ==
  /\ Len(order) = n
  /\ \A k \in 0..(n - 1) : Cardinality({i \in DOMAIN order : order[i] = k}) = 1

\* C1: after any sequence of addTracks / enqueue / playNext / removeEntry /
\* moveEntry / clearQueue from the empty queue, the natural positions of the N
\* entries are exactly {0..N-1}: none shared, none skipped.
C1_Density == Dense(items)

\* C2: with shuffle disabled and N > 0 entries, 0 <= current_index < N in every
\* reachable state.
C2_IndexInRange ==
  (~shuffle_enabled /\ N > 0) => (0 <= current_index /\ current_index < N)

\* C3: with shuffle enabled and N > 0 entries, shuffle_order has length N and
\* holds each of 0..N-1 exactly once, and 0 <= current_index < N.
C3_ShufflePermutation ==
  (shuffle_enabled /\ N > 0) =>
    /\ IsPermutation(shuffle_order, N)
    /\ 0 <= current_index /\ current_index < N

\* C4: with N > 0, setShuffle(true), from shuffle disabled or already enabled,
\* leaves currentTrack() returning the same queue entry as before the call.
C4_EnableKeepsCurrent ==
  N > 0 => \A r \in set_shuffle(DB, TRUE) : current_entry(r.q) = current_entry(DB)

\* C5: while shuffle is enabled and N > 0, appending tracks (addTracks or
\* enqueue) never changes the entry currentTrack() returns.
C5_AppendKeepsCurrent ==
  (shuffle_enabled /\ N > 0) =>
    /\ \A track_ids \in TrackLists : \A r \in add_tracks(DB, track_ids, FALSE) :
         current_entry(r.q) = current_entry(DB)
    /\ \A track_id \in TrackIds : \A r \in add_to_queue(DB, track_id) :
         current_entry(r.q) = current_entry(DB)

\* C6: setShuffle(false) with shuffle enabled and N > 0 sets current_index to
\* the value shuffle_order[current_index] had before the call and clears
\* shuffle_order, so currentTrack() returns the same entry before and after.
C6_DisableRecomputesIndex ==
  (shuffle_enabled /\ N > 0) =>
    \A r \in set_shuffle(DB, FALSE) :
      /\ r.q.shuffle_order = << >>
      /\ current_entry(r.q) = current_entry(DB)
      /\ (0 <= current_index /\ current_index < Len(shuffle_order)) =>
           r.q.current_index = shuffle_order[current_index + 1]

\* Rows and queue_state alike, whatever the order the rows were inserted in.
SameQueue(a, b) ==
  /\ a.current_index = b.current_index
  /\ a.shuffle_enabled = b.shuffle_enabled
  /\ a.repeat_mode = b.repeat_mode
  /\ a.shuffle_order = b.shuffle_order
  /\ Len(a.items) = Len(b.items)
  /\ \A e \in DOMAIN a.items :
       Cardinality({x \in DOMAIN a.items : a.items[x] = a.items[e]})
         = Cardinality({x \in DOMAIN b.items : b.items[x] = a.items[e]})

\* The request of session ses served alone on the rows q.
Alone(q, ses) ==
  IF ses.op = "add_tracks" /\ ses.clear_existing
  THEN add_tracks(q, ses.track_ids, TRUE)
  ELSE Outcomes(q, ses)

\* What the two requests leave when one is served wholly before the other.
SerialOutcomes ==
  {q2.q : q2 \in UNION {Alone(q1.q, sessions[2]) :
                          q1 \in Alone(conc_init, sessions[1])}}
  \cup
  {q1.q : q1 \in UNION {Alone(q2.q, sessions[1]) :
                          q2 \in Alone(conc_init, sessions[2])}}

\* C7: every concurrent execution of mutating requests ends in a state that some
\* serial order of the same requests produces (two concurrent appends never share
\* a position, two concurrent next() calls advance current_index by two).
C7_Serializable ==
  (\A s \in DOMAIN sessions : sessions[s].stage = "done") =>
    \E q \in SerialOutcomes : SameQueue(DB, q)

\* C8: with N > 0, repeat_mode = off and current_index = N-1 (shuffle enabled or
\* not), next() returns none and leaves current_index, shuffle_order and every
\* entry unchanged - so also when it is called again.
C8_NextAtEndIsNoop ==
  (N > 0 /\ repeat_mode = "off" /\ current_index = N - 1) =>
    next_track(DB) = {Result(DB, None, 0)}

\* As in scenario B: next() has been called at the last entry of a queue of
\* several, and returned none.
C8_Witness ==
  /\ last_op = "next_track" /\ ret = None
  /\ N = MaxLen /\ Dense(items) /\ current_index = N - 1 /\ repeat_mode = "off"

\* C9: with N > 0, previous() returns a track, never none, in every repeat mode
\* and both shuffle modes; at current_index = 0 with repeat_mode off or one it
\* keeps current_index at 0 and returns the current track.
C9_PreviousNeverNone ==
  N > 0 =>
    \A r \in previous_track(DB) :
      /\ r.ret # None
      /\ (current_index = 0 /\ repeat_mode \in {"off", "one"}) =>
           (r.q.current_index = 0 /\ r.ret = get_current_track(DB))

\* C10: addTracks with k resolvable ids on a queue of N entries, N = 1 included,
\* creates exactly k entries at positions N..N+k-1 in input order, returns k and
\* leaves the positions of the existing entries unchanged.
C10_AddTracksAppends ==
  \A track_ids \in ConcTrackLists : \A r \in add_tracks(DB, track_ids, FALSE) :
    /\ r.ret = Len(track_ids)
    /\ Len(r.q.items) = N + Len(track_ids)
    /\ \A i \in 1..Len(track_ids) :
         r.q.items[N + i] = [track_id |-> track_ids[i], position |-> N + i - 1]
    /\ \A e \in 1..N : r.q.items[e] = items[e]

\* The largest position in the queue, -1 when it is empty.
MaxPosition(its) ==
  IF DOMAIN its = {} THEN -1
  ELSE CHOOSE p \in PositionSet(its) : \A r \in PositionSet(its) : r <= p

\* Lists that hold a known and an unknown track id.
MixedLists ==
  {l \in TrackLists : (\E i \in DOMAIN l : l[i] \in Tracks)
                      /\ (\E i \in DOMAIN l : l[i] \notin Tracks)}

\* C11: addTracks with a list mixing known and unknown ids raises no error,
\* creates entries for the known ids only, returns the number of entries
\* created, and the new entries take consecutive positions directly after the
\* previous maximum: a skipped id leaves no gap.
C11_SkipLeavesNoGap ==
  \A track_ids \in MixedLists : \A r \in add_tracks(DB, track_ids, FALSE) :
    LET k == Cardinality({i \in DOMAIN track_ids : track_ids[i] \in Tracks})
    IN  /\ r.ret = k
        /\ Len(r.q.items) = N + k
        /\ \A j \in 1..k :
             /\ r.q.items[N + j].track_id \in Tracks
             /\ r.q.items[N + j].position = MaxPosition(items) + j

\* C12: moveEntry with new_position < 0 or new_position >= N is rejected and
\* leaves every position, current_index and shuffle_order unchanged.
C12_MoveRejectsBadPosition ==
  \A queue_item_id \in DOMAIN items, new_position \in {-1, N, N + 1} :
    \A r \in move_track(DB, queue_item_id, new_position) :
      r.ret # TRUE /\ r.q = DB

C14_PlayIndex ==
  \A index \in (-1)..(N + 1) : \A r \in play_index(DB, index) :
    IF index < 0 \/ index >= N
    THEN r.ret = None /\ r.q = DB
    ELSE /\ r.q = [DB EXCEPT !.current_index = index]
         /\ shuffle_enabled => index + 1 \in DOMAIN shuffle_order
         /\ LET p == IF shuffle_enabled THEN shuffle_order[index + 1] ELSE index
            IN  /\ 0 <= p /\ p < N
                /\ current_entry(r.q) = ItemAt(items, p)
                /\ r.ret = items[ItemAt(items, p)].track_id

\* C15: removeEntry with an id that is not in the queue returns false and
\* changes no position, nor current_index, shuffle_order, shuffle_enabled or
\* repeat_mode.
C15_RemoveUnknownIsNoop ==
  \A queue_item_id \in ItemIds \ DOMAIN items :
    remove_track(DB, queue_item_id) = {Result(DB, FALSE, 0)}

\* removeEntry of an id that is not in the queue has returned false while the
\* queue holds entries and the current one is not the first.
C15_Witness ==
  /\ last_op = "remove_track" /\ ret = FALSE
  /\ N > 0 /\ current_index > 0

\* C16: setRepeat with a mode outside {off, one, all} fails and leaves the state
\* unchanged, with a valid mode it changes repeat_mode only; repeat_mode is one
\* of off, one, all in every reachable state.
C16_SetRepeat ==
  /\ repeat_mode \in RepeatModes
  /\ \A mode \in Modes : \A r \in set_repeat(DB, mode) :
       IF mode \in RepeatModes
       THEN ~r.raised /\ r.q = [DB EXCEPT !.repeat_mode = mode]
       ELSE r.raised /\ r.q = DB

\* setRepeat has been refused a mode while repeat_mode was all.
C16_Witness ==
  /\ last_op = "set_repeat" /\ ret = ValueError
  /\ repeat_mode = "all" /\ N > 0

\* C17: addAlbum, addPlaylist and addArtist with an id that does not resolve
\* fail (NotFound) and leave the queue unchanged, also when clear is true: the
\* existing entries are not cleared.
C17_UnknownSourceIsNotFound ==
  \A clear \in BOOLEAN :
    /\ \A r \in add_playlist(DB, UnknownPlaylist, clear) : r.raised /\ r.q = DB
    /\ \A r \in add_album(DB, UnknownAlbum, clear) : r.raised /\ r.q = DB
    /\ \A r \in add_artist(DB, UnknownArtist, clear) : r.raised /\ r.q = DB

\* C18: from the first access on exactly one QueueState record exists: the first
\* request creates it, also when two requests make the first access at once, and
\* no operation, clearQueue included, deletes it or creates a second one (the
\* record is the row with the primary key id = 1).
C18_OneQueueState ==
  (\/ last_op # "init"
   \/ \E s \in DOMAIN sessions : sessions[s].stage \in {"ready", "read", "done", "failed"})
    => state_exists

\* Two requests made the first access at once: one created the record, the
\* other found it on its own commit, and a clearQueue has been served since.
C18_Witness ==
  /\ conc_init.items = NoItems
  /\ \E s, t \in DOMAIN sessions :
       /\ sessions[s].stage = "failed"
       /\ sessions[t].stage = "done" /\ sessions[t].op = "clear_queue"
  /\ state_exists

\* C19: in any reachable state with N = 0, addTracks of k >= 1 known tracks
\* results in current_index = 0 and getCurrentTrack() returning the first track
\* of the added list.
C19_FirstAddedIsCurrent ==
  N = 0 =>
    \A track_ids \in ConcTrackLists : \A r \in add_tracks(DB, track_ids, FALSE) :
      /\ r.q.current_index = 0
      /\ current_entry(r.q) = 1
      /\ get_current_track(r.q) = track_ids[1]

\* C20: with shuffle disabled, N > 0 and current_index = c, setShuffle(true)
\* yields shuffle_order[0] = c and current_index = 0, with each of the other N-1
\* natural positions exactly once in shuffle_order[1..N-1], for every outcome of
\* the random shuffle.
C20_EnablePinsCurrent ==
  (~shuffle_enabled /\ N > 0) =>
    \A r \in set_shuffle(DB, TRUE) :
      /\ r.q.current_index = 0
      /\ IsPermutation(r.q.shuffle_order, N)
      /\ r.q.shuffle_order[1] = current_index

\* C21: with shuffle enabled and N > 0, setShuffle(false) directly followed by
\* setShuffle(true) leaves currentTrack() returning the same entry as before
\* the two calls.
C21_DisableEnableKeepsCurrent ==
  (shuffle_enabled /\ N > 0) =>
    \A r1 \in set_shuffle(DB, FALSE) : \A r2 \in set_shuffle(r1.q, TRUE) :
      current_entry(r2.q) = current_entry(DB)

\* An outcome of a projection: the rows as they were, and on an empty queue the
\* empty sequence returned.
Untouched(r) ==
  /\ r.q = DB
  /\ r.made = 0
  /\ N = 0 => (~r.raised /\ r.ret = << >>)

\* C22: upcoming(limit) and history(limit) never change any entry,
\* current_index, shuffle_enabled, shuffle_order or repeat_mode, whatever the
\* limit and whether they return or raise, and on an empty queue both return the
\* empty sequence.
C22_ProjectionsArePure ==
  \A limit \in Limits :
    /\ \A r \in get_upcoming(DB, limit) : Untouched(r)
    /\ \A r \in get_history(DB, limit) : Untouched(r)

\* history() has listed the entries played before the current one of a full,
\* shuffled queue.
C22_Witness ==
  /\ last_op = "get_history"
  /\ N = MaxLen
  /\ shuffle_enabled
  /\ IsPermutation(shuffle_order, N)
  /\ current_index = N - 1
  /\ Len(ret) = N - 1

\* C23: in every reachable state with N = 0, however the queue was emptied,
\* current_index is 0, and currentTrack(), next() and previous() each return
\* none without changing the state.
C23_EmptyQueue ==
  N = 0 =>
    /\ current_index = 0
    /\ get_current_track(DB) = None
    /\ next_track(DB) = {Result(DB, None, 0)}
    /\ previous_track(DB) = {Result(DB, None, 0)}

\* The entry that was row e, after the row queue_item_id has been removed.
AfterRemove(e, queue_item_id) == IF e > queue_item_id THEN e - 1 ELSE e

\* C24: with shuffle disabled, removing an entry other than the current one
\* leaves currentTrack() returning the same entry: current_index goes down by one
\* exactly when the removed entry's position was below it.
C24_RemoveOtherKeepsCurrent ==
  (~shuffle_enabled /\ current_entry(DB) # 0) =>
    \A queue_item_id \in DOMAIN items \ {current_entry(DB)} :
      \A r \in remove_track(DB, queue_item_id) :
        /\ current_entry(r.q) = AfterRemove(current_entry(DB), queue_item_id)
        /\ r.q.current_index = IF items[queue_item_id].position < current_index
                               THEN current_index - 1 ELSE current_index

\* C25: with shuffle disabled and N >= 2, removing the current entry leaves
\* current_index as it is when that entry was not the last one (the former next
\* entry becomes current) and sets it to the new N-1 when it was the last one;
\* either way currentTrack() returns an entry afterwards.
C25_RemoveCurrent ==
  (~shuffle_enabled /\ N >= 2 /\ current_entry(DB) # 0) =>
    \A r \in remove_track(DB, current_entry(DB)) :
      /\ current_entry(r.q) # 0
      /\ IF current_entry(DB) = ItemAt(items, N - 1)
         THEN r.q.current_index = N - 2
         ELSE /\ r.q.current_index = current_index
              /\ current_entry(r.q) =
                   AfterRemove(ItemAt(items, current_index + 1), current_entry(DB))

\* C26: after removeEntry of a non-current entry while shuffle is enabled,
\* shuffle_order is a permutation of 0..N'-1 for the new count N' and
\* currentTrack() returns the same entry as before.
C26_RemoveUnderShuffle ==
  (shuffle_enabled /\ current_entry(DB) # 0) =>
    \A queue_item_id \in DOMAIN items \ {current_entry(DB)} :
      \A r \in remove_track(DB, queue_item_id) :
        /\ IsPermutation(r.q.shuffle_order, N - 1)
        /\ current_entry(r.q) = AfterRemove(current_entry(DB), queue_item_id)

\* C27: with shuffle disabled, moveEntry(e, p) with 0 <= p < N succeeds, places
\* e at position p, keeps the relative order of the other entries and leaves
\* currentTrack() returning the same entry; current_index = p afterwards when e
\* was the current entry.
C27_MoveKeepsCurrent ==
  ~shuffle_enabled =>
    \A queue_item_id \in DOMAIN items, new_position \in 0..(N - 1) :
      \A r \in move_track(DB, queue_item_id, new_position) :
        /\ r.ret = TRUE
        /\ r.q.items[queue_item_id].position = new_position
        /\ ItemAt(r.q.items, new_position) = queue_item_id
        /\ \A a, b \in DOMAIN items \ {queue_item_id} :
             Before(items, a, b) <=> Before(r.q.items, a, b)
        /\ current_entry(r.q) = current_entry(DB)
        /\ queue_item_id = current_entry(DB) => r.q.current_index = new_position

\* C28: after a moveEntry while shuffle is enabled, shuffle_order is a
\* permutation of 0..N-1 and shuffle_order[current_index] is the position, after
\* the move, of the entry that was playing before it: currentTrack() returns the
\* same entry.
C28_MoveUnderShuffle ==
  (shuffle_enabled /\ current_entry(DB) # 0) =>
    \A queue_item_id \in DOMAIN items, new_position \in 0..(N - 1) :
      \A r \in move_track(DB, queue_item_id, new_position) :
        /\ IsPermutation(r.q.shuffle_order, N)
        /\ 0 <= r.q.current_index /\ r.q.current_index < N
        /\ r.q.shuffle_order[r.q.current_index + 1]
             = r.q.items[current_entry(DB)].position
        /\ current_entry(r.q) = current_entry(DB)

C30_RepeatAllWraps ==
  (repeat_mode = "all" /\ N > 0) =>
    /\ \A r \in next_track(DB) :
         /\ r.q.current_index = (current_index + 1) % N
         /\ r.ret # None /\ r.ret = get_current_track(r.q)
         /\ \A r2 \in previous_track(r.q) : r2.q.current_index = current_index
    /\ \A r \in previous_track(DB) :
         /\ r.q.current_index = (current_index - 1) % N
         /\ r.ret # None /\ r.ret = get_current_track(r.q)

C32_PlayNextInsertsAfterCurrent ==
  (~shuffle_enabled /\ N > 0) =>
    \A t \in Tracks : \A r \in play_next(DB, t) :
      /\ ~r.raised
      /\ r.made = 1
      /\ Len(r.q.items) = N + 1
      /\ r.q.items[N + 1] = [track_id |-> t, position |-> current_index + 1]
      /\ \A e \in DOMAIN items :
           r.q.items[e].position =
             IF items[e].position >= current_index + 1
             THEN items[e].position + 1 ELSE items[e].position
      /\ r.q.current_index = current_index
      /\ current_entry(r.q) = current_entry(DB)
      /\ current_entry(DB) # 0
      /\ repeat_mode \in {"off", "all"} =>
           \A r2 \in next_track(r.q) : r2.ret = t /\ current_entry(r2.q) = N + 1

\* C33: with shuffle enabled and N > 0, playNext(t) for a known track creates
\* the new entry at the natural position just after that of the playing entry,
\* old shuffle_order[current_index] + 1, and the playing entry stays current.
\* Stated for the states in which shuffle_order[current_index] exists.
C33_PlayNextUnderShuffle ==
  (shuffle_enabled /\ N > 0 /\ 0 <= current_index /\ current_index < Len(shuffle_order)) =>
    \A t \in Tracks : \A r \in play_next(DB, t) :
      /\ ~r.raised
      /\ Len(r.q.items) = N + 1
      /\ r.q.items[N + 1].position = shuffle_order[current_index + 1] + 1
      /\ current_entry(r.q) = current_entry(DB)

\* The rows after k successive next() calls from q.
AfterNext(q, k) ==
  LET nth[i \in 0..k] ==
        IF i = 0 THEN q ELSE (CHOOSE r \in next_track(nth[i - 1]) : TRUE).q
  IN  nth[k]

\* The queue entries k successive next() calls return from q (0 for a call that
\* returns None).
NextEntries(q, k) ==
  [i \in 1..k |->
     LET r == CHOOSE r \in next_track(AfterNext(q, i - 1)) : TRUE
     IN  IF r.ret = None THEN 0 ELSE current_entry(r.q)]

\* The number of indices in current_index+1 .. min(current_index+limit, N-1).
UpcomingCount(limit) ==
  LET last == IF current_index + limit < N - 1 THEN current_index + limit ELSE N - 1
  IN  IF last > current_index THEN last - current_index ELSE 0

\* C34: upcoming(limit), limit >= 0, returns one entry for each index in
\* current_index+1 .. min(current_index+limit, N-1), and they are, in order, the
\* entries that as many successive next() calls return under repeat_mode = off.
C34_UpcomingIsNextSequence ==
  N > 0 =>
    \A limit \in Limits :
      limit >= 0 =>
        \A r \in get_upcoming(DB, limit) :
          /\ ~r.raised
          /\ Len(r.ret) = UpcomingCount(limit)
          /\ r.ret = NextEntries([DB EXCEPT !.repeat_mode = "off"], Len(r.ret))

\* C35: addTracks with clear_existing = true is one atomic unit: while a session
\* is between the clearing and the adding of its add_tracks, no other session
\* has read the emptied queue that lies in between. (Every session serves one
\* request, so the other session can have read an empty queue that was not empty
\* at the start from nowhere else.)
C35_ClearingAddIsAtomic ==
  \A s, t \in Sessions :
    (/\ s # t
     /\ conc_init.items # NoItems
     /\ sessions[s].clear_existing
     /\ sessions[s].stage \in {"cleared", "read"})
    => ~(sessions[t].stage = "read" /\ sessions[t].read.items = NoItems)

\* C36: with N > 0 and repeat_mode = off, after playIndex(0) the next N-1 calls
\* of next() return N-1 pairwise different entries, none of them the entry
\* playIndex(0) started, and the N-th call returns none with current_index
\* staying N-1, with shuffle enabled or not.
C36_EveryEntryPlayedOnce ==
  (N > 0 /\ repeat_mode = "off") =>
    \A r \in play_index(DB, 0) :
      LET start == current_entry(r.q)
          played == NextEntries(r.q, N)
      IN  /\ r.ret # None
          /\ start # 0
          /\ \A i \in 1..(N - 1) : played[i] # 0 /\ played[i] # start
          /\ \A i, j \in 1..(N - 1) : played[i] = played[j] => i = j
          /\ played[N] = 0
          /\ AfterNext(r.q, N - 1).current_index = N - 1
          /\ AfterNext(r.q, N).current_index = N - 1

\* C37: in every reachable state getQueue returns, and the current_track it
\* reports is the track getCurrentTrack() returns: both none, or both the track
\* of the same entry.
C37_GetQueueAgreesWithCurrent ==
  \A r \in get_queue(DB) :
    /\ ~r.raised
    /\ queue_entry(DB) = current_entry(DB)
    /\ r.ret.current_track = get_current_track(DB)

\* C38: in every reachable state with shuffle enabled, upcoming(limit) and
\* history(limit) read shuffle_order only inside its length: neither fails with
\* an IndexError, for any limit >= 0.
C38_ShuffleViewsStayInRange ==
  shuffle_enabled =>
    \A limit \in {l \in Limits : l >= 0} :
      /\ \A r \in get_upcoming(DB, limit) : ~r.raised
      /\ \A r \in get_history(DB, limit) : ~r.raised

\* C39: playNext(t) for a known track on an empty queue (N = 0, current_index = 0)
\* creates the entry at position 0, and that entry is the current track
\* afterwards.
C39_PlayNextOnEmptyQueue ==
  (N = 0 /\ current_index = 0) =>
    \A t \in Tracks : \A r \in play_next(DB, t) :
      /\ ~r.raised
      /\ Len(r.q.items) = 1
      /\ r.q.items[1] = [track_id |-> t, position |-> 0]
      /\ current_entry(r.q) = 1
      /\ get_current_track(r.q) = t

====
